---- MODULE Spec2Model ----
(***************************************************************************)
(* Page state machine of the fraud dashboard (src/src/App.jsx) and its     *)
(* API client (src/src/fraudApi.js).                                       *)
(*                                                                         *)
(* Text is modelled as a sequence of symbols; a symbol is either a single  *)
(* character or an opaque chunk of text that no operation looks into.      *)
(* The empty string is <<>>.  An optional value is <<>> (null/undefined)   *)
(* or <<v>>.                                                               *)
(***************************************************************************)
EXTENDS Integers, Sequences, FiniteSets, TLC

VARIABLES
    hospitals,          \* App.jsx:39
    hospitalsLoading,   \* App.jsx:40
    hospitalsError,     \* App.jsx:41
    years,              \* App.jsx:43
    selectedHospital,   \* App.jsx:44
    year,               \* App.jsx:45  (<<>> = null)
    quarter,            \* App.jsx:46  (text: "" or the option's value)
    report,             \* App.jsx:48  (<<>> = null)
    topCases,           \* App.jsx:49
    loading,            \* App.jsx:51
    error,              \* App.jsx:52
    step,               \* App.jsx:55
    activeTab,          \* App.jsx:56
    loadPc,             \* position of loadData: mount / hospitals / years / done
    yearsFetch,         \* promise of getYears(): none / pending / ok / err
    runPc,              \* position of handleRun: idle / awaiting
    runReport,          \* promise of runFraudCheck(...) in the Promise.all of the latest run
    runCases,           \* promise of getTopCases(...) in the Promise.all of the latest run
    runId,              \* number of runs that passed validation so far
    net,                \* HTTP requests issued and not yet settled
    sent,               \* URLs fetched by the latest step (empty when it fetched nothing)
    exports,            \* handleExportPdf calls suspended at an await
    rdIn,               \* risk_distribution of a backend response (normalisation harness)
    rdOut               \* result of normalising rdIn (normalisation harness)

appVars  == <<hospitals, hospitalsLoading, hospitalsError, years, selectedHospital,
              year, quarter, report, topCases, loading, error, step, activeTab>>
ctlVars  == <<loadPc, yearsFetch, runPc, runReport, runCases, runId, net, exports>>
normVars == <<rdIn, rdOut>>
vars     == <<appVars, ctlVars, sent, normVars>>

---------------------------------------------------------------------------
\* Bounds of the model.

\* Runs that pass validation in one behaviour.
MaxRuns == 2
\* PDF exports suspended at the same time.
MaxExports == 1
\* Longest risk_distribution array fed to the normalisation.
MaxItems == 2

---------------------------------------------------------------------------
\* Values.

Null == <<>>
Some(v) == <<v>>
Str(chunk) == <<chunk>>
EmptyStr == <<>>

\* JavaScript truthiness of a text, of an optional number, of a number.
TruthyStr(s) == s # EmptyStr
TruthyNum(n) == n # 0
TruthyOptNum(o) == o # Null /\ TruthyNum(o[1])

Digit == <<"0", "1", "2", "3", "4", "5", "6", "7", "8", "9">>

\* String(n) / template interpolation of a non-negative integer.
RECURSIVE ToDecimal(_)
ToDecimal(n) ==
    IF n < 10 THEN <<Digit[n + 1]>>
    ELSE ToDecimal(n \div 10) \o <<Digit[(n % 10) + 1]>>

DigitValue(c) == (CHOOSE i \in 1..10 : Digit[i] = c) - 1

\* Number(s) of a text of decimal digits.
RECURSIVE ParseDecimal(_, _)
ParseDecimal(s, acc) ==
    IF s = <<>> THEN acc
    ELSE ParseDecimal(Tail(s), acc * 10 + DigitValue(Head(s)))

Number(s) == ParseDecimal(s, 0)

\* s.includes(sub)
Includes(s, sub) ==
    \E i \in 0..(Len(s) - Len(sub)) :
        \A j \in 1..Len(sub) : s[i + j] = sub[j]

---------------------------------------------------------------------------
\* What the backend can answer (inputs of the model).

\* A request that does not produce a 2xx JSON answer: a non-2xx response with
\* its status and body text, or a transport error with its own message.
Failures ==
    { [kind |-> "http",    status |-> 500, text |-> Str("server error")],
      [kind |-> "http",    status |-> 404, text |-> Str("Not Found")],
      [kind |-> "network", status |-> 0,   text |-> Str("Failed to fetch")],
      [kind |-> "network", status |-> 0,   text |-> EmptyStr] }

Hospital(id, label) == [id |-> Str(id), label |-> Str(label)]

\* JSON bodies of GET /api/hospitals ("hospitals" may be missing).
HospitalBodies ==
    { [hospitals |-> Null],
      [hospitals |-> Some(<<Hospital("H1", "General"), Hospital("H2", "Central")>>)] }

\* JSON bodies of GET /api/years ("years" may be missing).
YearBodies ==
    { [years |-> Null],
      [years |-> Some(<<0>>)],
      [years |-> Some(<<2022, 2023>>)] }

NoTier == [k \in {} |-> 0]

\* risk_distribution of a response: missing, a mapping, or an array of items.
RdAbsent == [shape |-> "absent", map |-> NoTier, items |-> <<>>]
RdMap(m) == [shape |-> "map", map |-> m, items |-> <<>>]
RdArray(items) == [shape |-> "array", map |-> NoTier, items |-> items]

Item(name, value) == Some([name |-> name, value |-> value])

\* JSON bodies of GET /api/fraud-report.
ReportBodies ==
    { [hospital_id |-> Str("H1"), hospital_name |-> Str("General"),
       year |-> 2023, quarter |-> Null,
       risk_level |-> EmptyStr, hospital_risk_level |-> Str("HIGH"),
       summary |-> EmptyStr,
       risk_distribution |-> RdMap([k \in {"High", "Low"} |-> IF k = "High" THEN 5 ELSE 1])],
      [hospital_id |-> Str("H2"), hospital_name |-> Str("Central"),
       year |-> 2022, quarter |-> Some(Str("Q1")),
       risk_level |-> Str("LOW"), hospital_risk_level |-> EmptyStr,
       summary |-> Str("ok"),
       risk_distribution |->
           RdArray(<<Item(<<"H", "i", "g", "h">>, 3), Item(<<"l", "o", "w">>, 2)>>)] }

Case(id, band) == [prescription_id |-> Str(id), risk_band |-> Str(band)]

\* JSON bodies of GET /api/top-cases ("cases" may be missing).
CasesBodies ==
    { [cases |-> Null],
      [cases |-> Some(<<Case("P1", "High")>>)] }

---------------------------------------------------------------------------
\* API client (fraudApi.js).

\* Faulty variant of ErrorMessage: the status is left out of the message.
ErrorMessage_NoStatus(f) ==
    IF f.kind = "http"
    THEN Str("API error: ") \o f.text
    ELSE f.text

\* The message of the error getJson throws, or of the transport error fetch
\* rejects with.
ErrorMessage(f) ==
    IF f.kind = "http"
    THEN Str("API error ") \o ToDecimal(f.status) \o Str(": ") \o f.text
    ELSE f.text

\* data.hospitals || []
getHospitals(body) == IF body.hospitals = Null THEN <<>> ELSE body.hospitals[1]

\* data.years || []
getYears(body) == IF body.years = Null THEN <<>> ELSE body.years[1]

\* data.cases || []
getTopCases(body) == IF body.cases = Null THEN <<>> ELSE body.cases[1]

\* URLSearchParams: an ordered list of <<key, value>> pairs.
HasParam(q, key) == \E i \in 1..Len(q) : q[i][1] = key
GetParam(q, key) == q[CHOOSE i \in 1..Len(q) : q[i][1] = key][2]

\* Faulty variant of QuarterArg: "" is not mapped to undefined (Number("") is 0).
QuarterArg_NoFullYear(quarterText) == Some(Number(quarterText))

\* quarter === "" ? undefined : Number(quarter)
QuarterArg(quarterText) ==
    IF quarterText = EmptyStr THEN Null ELSE Some(Number(quarterText))

\* if (quarter !== undefined) params.append("quarter", String(quarter))
AppendQuarter(q, quarterArg) ==
    IF quarterArg # Null
    THEN Append(q, <<"quarter", ToDecimal(quarterArg[1])>>)
    ELSE q

\* Query of /api/fraud-report.
ReportParams(hospitalId, yearNum, quarterArg) ==
    AppendQuarter(<<<<"hospital_id", hospitalId>>, <<"year", ToDecimal(yearNum)>>>>,
                  quarterArg)

\* Query of /api/top-cases.
CasesParams(hospitalId, yearNum, quarterArg, limit) ==
    AppendQuarter(<<<<"hospital_id", hospitalId>>, <<"year", ToDecimal(yearNum)>>,
                    <<"limit", ToDecimal(limit)>>>>,
                  quarterArg)

\* (item.name || "").toLowerCase(), on the letters the tier names are made of.
Upper == <<"H", "I", "G", "M", "E", "D", "U", "L", "O", "W", "R", "S", "K">>
Lower == <<"h", "i", "g", "m", "e", "d", "u", "l", "o", "w", "r", "s", "k">>
LowerChar(c) ==
    IF \E i \in 1..Len(Upper) : Upper[i] = c
    THEN Lower[CHOOSE i \in 1..Len(Upper) : Upper[i] = c]
    ELSE c
ToLowerCase(s) == [i \in 1..Len(s) |-> LowerChar(s[i])]

\* obj[key] = value
Put(obj, key, value) ==
    [k \in (DOMAIN obj) \cup {key} |-> IF k = key THEN value ELSE obj[k]]

\* Faulty variant of NormalizeItem: the name is matched case-sensitively.
NormalizeItem_CaseSensitive(obj, item) ==
    IF item = Null THEN obj
    ELSE LET name == item[1].name
         IN  IF Includes(name, <<"h", "i", "g", "h">>)
                 THEN Put(obj, "High", item[1].value)
             ELSE IF Includes(name, <<"m", "e", "d", "i", "u", "m">>)
                 THEN Put(obj, "Medium", item[1].value)
             ELSE IF Includes(name, <<"l", "o", "w">>)
                 THEN Put(obj, "Low", item[1].value)
             ELSE obj

\* One iteration of the loop over a risk_distribution array.
NormalizeItem(obj, item) ==
    IF item = Null THEN obj
    ELSE LET name == ToLowerCase(item[1].name)
         IN  IF Includes(name, <<"h", "i", "g", "h">>)
                 THEN Put(obj, "High", item[1].value)
             ELSE IF Includes(name, <<"m", "e", "d", "i", "u", "m">>)
                 THEN Put(obj, "Medium", item[1].value)
             ELSE IF Includes(name, <<"l", "o", "w">>)
                 THEN Put(obj, "Low", item[1].value)
             ELSE obj

RECURSIVE NormalizeItems(_, _)
NormalizeItems(obj, items) ==
    IF items = <<>> THEN obj
    ELSE NormalizeItems(NormalizeItem(obj, Head(items)), Tail(items))

\* riskDistribution of runFraudCheck's result.
NormalizeRiskDistribution(rd) ==
    IF rd.shape = "absent" THEN NoTier
    ELSE IF rd.shape = "array" THEN NormalizeItems(NoTier, rd.items)
    ELSE rd.map

\* a || b on texts
OrStr(a, b) == IF TruthyStr(a) THEN a ELSE b

\* The record runFraudCheck returns for a response body.
runFraudCheck(data) ==
    [ hospitalId        |-> data.hospital_id,
      hospitalName      |-> data.hospital_name,
      year              |-> data.year,
      quarter           |-> data.quarter,
      hospitalRiskLevel |-> OrStr(data.risk_level, data.hospital_risk_level),
      summary           |-> OrStr(data.summary, EmptyStr),
      riskDistribution  |-> NormalizeRiskDistribution(data.risk_distribution) ]

\* riskObj.High || 0 and its siblings
TierValue(riskObj, tier) ==
    IF tier \in DOMAIN riskObj /\ TruthyNum(riskObj[tier]) THEN riskObj[tier] ELSE 0

\* pieData of a risk distribution mapping.
pieData(riskObj) ==
    << [name |-> "High",   value |-> TierValue(riskObj, "High")],
       [name |-> "Medium", value |-> TierValue(riskObj, "Medium")],
       [name |-> "Low",    value |-> TierValue(riskObj, "Low")] >>

---------------------------------------------------------------------------
\* Page state container (App.jsx).

\* Option values of the quarter selector, as the DOM reports them.
QUARTERS == <<EmptyStr, ToDecimal(1), ToDecimal(2), ToDecimal(3), ToDecimal(4)>>

\* limit of the top-cases request.
TopCasesLimit == 8

FallbackYears == <<2021, 2022, 2023>>

ValidationMessage == Str("Please select a hospital and year.")
RunFallbackMessage == Str("Failed to run fraud detector.")
LoadErrorMessage == Str("Failed to load hospitals or years from backend.")

\* A pending fetch: the run that issued it (0: the startup load) and its endpoint.
Request(run, ep) == [run |-> run, ep |-> ep]

\* A fetched URL: endpoint and query.
Url(ep, q) == [ep |-> ep, q |-> q]

\* State of one promise handed to Promise.all.
\* (val: the value it fulfilled with; err: the failure it rejected with.)
NoPromise == [st |-> "none", val |-> Null, err |-> Null]
Pending == [st |-> "pending", val |-> Null, err |-> Null]
Fulfilled(v) == [st |-> "ok", val |-> Some(v), err |-> Null]
Rejected(f) == [st |-> "err", val |-> Null, err |-> Some(f)]

\* The useState initial values, before the effect has run.
AppInit ==
    /\ hospitals = <<>>
    /\ hospitalsLoading = TRUE
    /\ hospitalsError = EmptyStr
    /\ years = <<>>
    /\ selectedHospital = EmptyStr
    /\ year = Null
    /\ quarter = EmptyStr
    /\ report = Null
    /\ topCases = <<>>
    /\ loading = FALSE
    /\ error = EmptyStr
    /\ step = 1
    /\ activeTab = "overview"
    /\ loadPc = "mount"
    /\ yearsFetch = "none"
    /\ runPc = "idle"
    /\ runReport = NoPromise
    /\ runCases = NoPromise
    /\ runId = 0
    /\ net = {}
    /\ sent = {}
    /\ exports = 0

Init ==
    /\ AppInit
    /\ rdIn = RdAbsent
    /\ rdOut = Null

runVars == <<runPc, runReport, runCases, runId>>
filterVars == <<selectedHospital, year, quarter>>
loadVars == <<hospitals, hospitalsLoading, hospitalsError, years>>
resultVars == <<report, topCases, loading, error, step, activeTab>>

\* ---- startup load (useEffect / loadData) ----

\* The effect runs after the first render: loadData up to its first await.
Mount ==
    /\ loadPc = "mount"
    /\ hospitalsLoading' = TRUE
    /\ hospitalsError' = EmptyStr
    /\ net' = net \cup {Request(0, "hospitals")}
    /\ sent' = {Url("hospitals", <<>>)}
    /\ loadPc' = "hospitals"
    /\ UNCHANGED <<hospitals, years, filterVars, resultVars, yearsFetch, runVars,
                   exports, normVars>>

\* setHospitals / setSelectedHospital after getHospitals() resolved.
HospitalsLoaded(hospitalList) ==
    /\ hospitals' = hospitalList
    /\ selectedHospital' =
           IF Len(hospitalList) > 0 THEN hospitalList[1].id ELSE selectedHospital

\* getHospitals() resolved: loadData from there to the await of getYears().
HospitalsResolve(body) ==
    /\ loadPc = "hospitals"
    /\ \E r \in net :
        /\ r.ep = "hospitals"
        /\ net' = (net \ {r}) \cup {Request(0, "years")}
    /\ sent' = {Url("years", <<>>)}
    /\ HospitalsLoaded(getHospitals(body))
    /\ loadPc' = "years"
    /\ yearsFetch' = "pending"
    /\ UNCHANGED <<hospitalsLoading, hospitalsError, years, year, quarter,
                   resultVars, runVars, exports, normVars>>

\* getHospitals() rejected: outer catch and finally; getYears is never called.
HospitalsReject(f) ==
    /\ loadPc = "hospitals"
    /\ \E r \in net :
        /\ r.ep = "hospitals"
        /\ net' = net \ {r}
    /\ hospitalsError' = LoadErrorMessage
    /\ hospitalsLoading' = FALSE
    /\ loadPc' = "done"
    /\ sent' = {}
    /\ UNCHANGED <<hospitals, years, filterVars, resultVars, yearsFetch, runVars,
                   exports, normVars>>

\* setYears / setYear after getYears() resolved.
YearsLoaded(yearList) ==
    /\ years' = yearList
    /\ year' = IF Len(yearList) > 0 THEN Some(yearList[Len(yearList)]) ELSE year

\* Faulty variant of YearsFallback: the first year is selected, not the last.
YearsFallback_FirstYear ==
    /\ years' = FallbackYears
    /\ year' = Some(FallbackYears[1])

\* The inner catch: the static list and its last element.
YearsFallback ==
    /\ years' = FallbackYears
    /\ year' = Some(FallbackYears[Len(FallbackYears)])

\* finally of loadData when the outer try completed normally.
LoadFinished ==
    /\ hospitalsLoading' = FALSE
    /\ UNCHANGED <<hospitals, hospitalsError, selectedHospital>>

YearsResolve(body) ==
    /\ loadPc = "years"
    /\ \E r \in net :
        /\ r.ep = "years"
        /\ net' = net \ {r}
    /\ yearsFetch' = "ok"
    /\ YearsLoaded(getYears(body))
    /\ LoadFinished
    /\ loadPc' = "done"
    /\ sent' = {}
    /\ UNCHANGED <<quarter, resultVars, runVars, exports, normVars>>

YearsReject(f) ==
    /\ loadPc = "years"
    /\ \E r \in net :
        /\ r.ep = "years"
        /\ net' = net \ {r}
    /\ yearsFetch' = "err"
    /\ YearsFallback
    /\ LoadFinished
    /\ loadPc' = "done"
    /\ sent' = {}
    /\ UNCHANGED <<quarter, resultVars, runVars, exports, normVars>>

\* ---- filter screen ----

FilterScreen == step = 1

SelectHospital(h) ==
    /\ FilterScreen
    /\ ~(hospitalsLoading \/ Len(hospitals) = 0)
    /\ selectedHospital' = h.id
    /\ sent' = {}
    /\ UNCHANGED <<loadVars, year, quarter, resultVars, ctlVars, normVars>>

\* setYear(Number(e.target.value)); the option's value is the year as text.
SelectYear(y) ==
    /\ FilterScreen
    /\ ~(hospitalsLoading \/ Len(years) = 0)
    /\ year' = Some(Number(ToDecimal(y)))
    /\ sent' = {}
    /\ UNCHANGED <<loadVars, selectedHospital, quarter, resultVars, ctlVars, normVars>>

SelectQuarter(q) ==
    /\ FilterScreen
    /\ ~hospitalsLoading
    /\ quarter' = q
    /\ sent' = {}
    /\ UNCHANGED <<loadVars, selectedHospital, year, resultVars, ctlVars, normVars>>

\* ---- run (handleRun) ----

\* Faulty variant of RunDisabled: the button ignores the loading flag.
RunDisabled_IgnoresLoading == hospitalsLoading

\* disabled={loading || hospitalsLoading} of the Run button.
RunDisabled == loading \/ hospitalsLoading

\* Faulty variant of SelectionMissing: only the year is validated.
SelectionMissing_YearOnly == ~TruthyOptNum(year)

\* !selectedHospital || !year
SelectionMissing == ~TruthyStr(selectedHospital) \/ ~TruthyOptNum(year)

\* Faulty variant of RunUrls: only the report is fetched at first.
RunUrls_ReportOnly(hospitalId, yearNum, quarterText) ==
    { Url("report", ReportParams(hospitalId, yearNum, QuarterArg(quarterText))) }

\* The two requests handleRun hands to Promise.all; Number(year) of a number
\* is that number.
RunUrls(hospitalId, yearNum, quarterText) ==
    { Url("report", ReportParams(hospitalId, yearNum, QuarterArg(quarterText))),
      Url("cases", CasesParams(hospitalId, yearNum, QuarterArg(quarterText),
                               TopCasesLimit)) }

\* Run clicked with a selection missing: the early return.
RunInvalid ==
    /\ FilterScreen
    /\ ~RunDisabled
    /\ SelectionMissing
    /\ error' = ValidationMessage
    /\ sent' = {}
    /\ UNCHANGED <<loadVars, filterVars, report, topCases, loading, step, activeTab,
                   ctlVars, normVars>>

\* Run clicked with hospital and year selected: handleRun up to its await.
RunStart ==
    /\ FilterScreen
    /\ ~RunDisabled
    /\ ~SelectionMissing
    /\ runId < MaxRuns
    /\ loading' = TRUE
    /\ error' = EmptyStr
    /\ sent' = RunUrls(selectedHospital, year[1], quarter)
    /\ net' = net \cup {Request(runId + 1, u.ep) : u \in sent'}
    /\ runId' = runId + 1
    /\ runPc' = "awaiting"
    /\ runReport' = Pending
    /\ runCases' = Pending
    /\ UNCHANGED <<loadVars, filterVars, report, topCases, step, activeTab,
                   loadPc, yearsFetch, exports, normVars>>

\* The request belongs to the Promise.all handleRun is suspended on.
Live(r) == runPc = "awaiting" /\ r.run = runId

\* Faulty variant of RunSucceeded: setActiveTab("overview") is left out.
RunSucceeded_KeepsTab(reportData, casesData) ==
    /\ report' = Some(reportData)
    /\ topCases' = casesData
    /\ step' = 2
    /\ UNCHANGED <<activeTab, error>>

\* Lines after the await when both promises fulfilled.
RunSucceeded(reportData, casesData) ==
    /\ report' = Some(reportData)
    /\ topCases' = casesData
    /\ activeTab' = "overview"
    /\ step' = 2
    /\ UNCHANGED error

\* Faulty variant of RunFailed: the failed run moves on to the dashboard.
RunFailed_ShowsDashboard(message) ==
    /\ report' = Null
    /\ topCases' = <<>>
    /\ error' = OrStr(message, RunFallbackMessage)
    /\ step' = 2
    /\ UNCHANGED activeTab

\* Faulty variant of RunFailed: setTopCases([]) is left out.
RunFailed_KeepsCases(message) ==
    /\ report' = Null
    /\ error' = OrStr(message, RunFallbackMessage)
    /\ UNCHANGED <<topCases, step, activeTab>>

\* The catch block, entered with the first rejection.
RunFailed(message) ==
    /\ report' = Null
    /\ topCases' = <<>>
    /\ error' = OrStr(message, RunFallbackMessage)
    /\ UNCHANGED <<step, activeTab>>

\* Faulty variant of RunFinally: setLoading(false) is left out.
RunFinally_KeepsLoading ==
    /\ UNCHANGED loading
    /\ runPc' = "idle"

\* The finally block.
RunFinally ==
    /\ loading' = FALSE
    /\ runPc' = "idle"

\* A response nobody waits for any more, or the first of two fulfilments.
NoEffect == UNCHANGED <<report, topCases, loading, error, step, activeTab, runPc>>

\* The report request answered 2xx with a JSON body.
ReportResolve(r, body) ==
    /\ r \in net
    /\ r.ep = "report"
    /\ net' = net \ {r}
    /\ IF Live(r)
       THEN /\ runReport' = Fulfilled(runFraudCheck(body))
            /\ IF runCases.st = "ok"
               THEN RunSucceeded(runFraudCheck(body), runCases.val[1]) /\ RunFinally
               ELSE NoEffect
       ELSE NoEffect /\ UNCHANGED runReport
    /\ sent' = {}
    /\ UNCHANGED <<loadVars, filterVars, runCases, runId, loadPc, yearsFetch, exports,
                   normVars>>

\* The report request failed.
ReportReject(r, f) ==
    /\ r \in net
    /\ r.ep = "report"
    /\ net' = net \ {r}
    /\ IF Live(r)
       THEN /\ runReport' = Rejected(f)
            /\ RunFailed(ErrorMessage(f))
            /\ RunFinally
       ELSE NoEffect /\ UNCHANGED runReport
    /\ sent' = {}
    /\ UNCHANGED <<loadVars, filterVars, runCases, runId, loadPc, yearsFetch, exports,
                   normVars>>

\* The top-cases request answered 2xx with a JSON body.
CasesResolve(r, body) ==
    /\ r \in net
    /\ r.ep = "cases"
    /\ net' = net \ {r}
    /\ IF Live(r)
       THEN /\ runCases' = Fulfilled(getTopCases(body))
            /\ IF runReport.st = "ok"
               THEN RunSucceeded(runReport.val[1], getTopCases(body)) /\ RunFinally
               ELSE NoEffect
       ELSE NoEffect /\ UNCHANGED runCases
    /\ sent' = {}
    /\ UNCHANGED <<loadVars, filterVars, runReport, runId, loadPc, yearsFetch, exports,
                   normVars>>

\* The top-cases request failed.
CasesReject(r, f) ==
    /\ r \in net
    /\ r.ep = "cases"
    /\ net' = net \ {r}
    /\ IF Live(r)
       THEN /\ runCases' = Rejected(f)
            /\ RunFailed(ErrorMessage(f))
            /\ RunFinally
       ELSE NoEffect /\ UNCHANGED runCases
    /\ sent' = {}
    /\ UNCHANGED <<loadVars, filterVars, runReport, runId, loadPc, yearsFetch, exports,
                   normVars>>

\* ---- dashboard screen ----

\* step === 2 && report
DashboardShown == step = 2 /\ report # Null

\* The Top Cases toggle button.
ToggleTab ==
    /\ DashboardShown
    /\ activeTab' = IF activeTab = "cases" THEN "overview" ELSE "cases"
    /\ sent' = {}
    /\ UNCHANGED <<loadVars, filterVars, report, topCases, loading, error, step,
                   ctlVars, normVars>>

\* Faulty variant of handleBackToFilters: leaving the dashboard drops the data.
handleBackToFilters_DropsData ==
    /\ DashboardShown
    /\ step' = 1
    /\ report' = Null
    /\ topCases' = <<>>
    /\ sent' = {}
    /\ UNCHANGED <<loadVars, filterVars, loading, error, activeTab, ctlVars, normVars>>

handleBackToFilters ==
    /\ DashboardShown
    /\ step' = 1
    /\ sent' = {}
    /\ UNCHANGED <<loadVars, filterVars, report, topCases, loading, error, activeTab,
                   ctlVars, normVars>>

\* handleExportPdf up to its first await.
ExportStart ==
    /\ DashboardShown
    /\ exports < MaxExports
    /\ exports' = exports + 1
    /\ sent' = {}
    /\ UNCHANGED <<appVars, loadPc, yearsFetch, runVars, net, normVars>>

\* The rest of handleExportPdf: the file is saved, or the failure is alerted.
ExportEnd ==
    /\ exports > 0
    /\ exports' = exports - 1
    /\ sent' = {}
    /\ UNCHANGED <<appVars, loadPc, yearsFetch, runVars, net, normVars>>

Next ==
    \/ Mount
    \/ \E body \in HospitalBodies : HospitalsResolve(body)
    \/ \E f \in Failures : HospitalsReject(f)
    \/ \E body \in YearBodies : YearsResolve(body)
    \/ \E f \in Failures : YearsReject(f)
    \/ \E i \in 1..Len(hospitals) : SelectHospital(hospitals[i])
    \/ \E i \in 1..Len(years) : SelectYear(years[i])
    \/ \E i \in 1..Len(QUARTERS) : SelectQuarter(QUARTERS[i])
    \/ RunInvalid
    \/ RunStart
    \/ \E r \in net, body \in ReportBodies : ReportResolve(r, body)
    \/ \E r \in net, f \in Failures : ReportReject(r, f)
    \/ \E r \in net, body \in CasesBodies : CasesResolve(r, body)
    \/ \E r \in net, f \in Failures : CasesReject(r, f)
    \/ ToggleTab
    \/ handleBackToFilters
    \/ ExportStart
    \/ ExportEnd

Spec == Init /\ [][Next]_vars

---------------------------------------------------------------------------
\* Normalisation harness: runFraudCheck's risk_distribution branch applied to
\* bounded inputs of every shape.

\* Items an array may hold: null, and {name, value} records whose names match
\* one tier, several tiers, or none (an empty name stands for a missing one).
ItemPool ==
    { Null,
      Item(<<"H", "i", "g", "h", " ", "R", "i", "s", "k">>, 5),
      Item(<<"m", "e", "d", "i", "u", "m">>, 2),
      Item(<<"L", "O", "W">>, 7),
      Item(<<"M", "e", "d", "i", "u", "m", "-", "L", "o", "w">>, 3),
      Item(<<"o", "t", "h", "e", "r">>, 4),
      Item(EmptyStr, 9) }

Tiers == {"High", "Medium", "Low"}

RdInputs ==
    {RdAbsent}
    \cup {RdMap([k \in D |-> 6]) : D \in SUBSET Tiers}
    \cup {RdMap([k \in Tiers |-> IF k = "Low" THEN 0 ELSE 4])}
    \cup {RdArray(a) : a \in UNION {[1..n -> ItemPool] : n \in 0..MaxItems}}

NormInit ==
    /\ AppInit
    /\ rdIn \in RdInputs
    /\ rdOut = Null

\* let riskDistribution = data.risk_distribution || {}; ... riskDistribution = obj
Normalize ==
    /\ rdOut = Null
    /\ rdOut' = Some(NormalizeRiskDistribution(rdIn))
    /\ UNCHANGED <<appVars, ctlVars, sent, rdIn>>

NormNext == Normalize

NormSpec == NormInit /\ [][NormNext]_vars

---------------------------------------------------------------------------
\* Properties.

\* A step in which handleRun resumes from its await and runs to its end.
RunCompletes == runPc = "awaiting" /\ runPc' = "idle"

\* A step in which handleRun passes validation and issues its requests.
RunIssued == runId' # runId

\* C1: the screen changes from filters (step 1) to dashboard (step 2) only in
\* the step that completes a run whose report fetch and top-cases fetch have
\* both fulfilled; in that step report and topCases become that run's two
\* results and activeTab becomes "overview", whatever it was.  Since every
\* step into the dashboard is of this kind, no other action (startup load,
\* validation failure, failed run, tab toggle, export) sets step to 2.
C1_DashboardOnlyByRunSuccess ==
    [][ (step # 2 /\ step' = 2) =>
            /\ RunCompletes
            /\ runReport'.st = "ok"
            /\ runCases'.st = "ok"
            /\ \A r \in net' : r.run # runId
            /\ report' = runReport'.val
            /\ topCases' = runCases'.val[1]
            /\ activeTab' = "overview" ]_vars

\* C1 witness: the dashboard was entered by the second run, which started
\* from the filter screen after the first dashboard visit.
C1_Witness ==
    /\ step = 2
    /\ runId = 2
    /\ runPc = "idle"
    /\ runReport.st = "ok"
    /\ runCases.st = "ok"
    /\ report = runReport.val
    /\ activeTab = "overview"

\* C2: when either request of a run fails, the run ends with report null,
\* topCases empty, error a non-empty message (the failure's own message when
\* it has one), and step and activeTab as they were when the run started
\* (they cannot change while the run waits); whichever request failed, also
\* when the other one had already succeeded.
C2_FailedRunClears ==
    [][ /\ (runPc = "awaiting" /\ runPc' = "awaiting") =>
                (step' = step /\ activeTab' = activeTab)
        /\ (RunCompletes /\ (runReport'.st = "err" \/ runCases'.st = "err")) =>
                LET f == IF runReport'.st = "err" THEN runReport'.err[1]
                                                   ELSE runCases'.err[1]
                IN  /\ report' = Null
                    /\ topCases' = <<>>
                    /\ error' # EmptyStr
                    /\ (ErrorMessage(f) # EmptyStr => error' = ErrorMessage(f))
                    /\ step' = step
                    /\ activeTab' = activeTab ]_vars

\* C2 witness: a run ended by the failure of the top-cases request after its
\* report request had succeeded.
C2_Witness ==
    /\ runPc = "idle"
    /\ runReport.st = "ok"
    /\ runCases.st = "err"
    /\ report = Null
    /\ topCases = <<>>
    /\ error # EmptyStr

\* The step in which the waiting run is ended by a non-2xx answer to its
\* report request.
ReportFailsHttp ==
    /\ RunCompletes
    /\ runReport.st = "pending"
    /\ runReport'.st = "err"
    /\ runReport'.err[1].kind = "http"

\* C3 as stated: when the report fetch of a run fails with a non-2xx response,
\* the error message contains the status code and the body text, and the
\* report held in state is left untouched.
C3_Original ==
    [][ ReportFailsHttp =>
            /\ Includes(error', ToDecimal(runReport'.err[1].status))
            /\ Includes(error', runReport'.err[1].text)
            /\ report' = report ]_vars

\* C3 amended: when the report fetch fails with a non-2xx response while the
\* run is still waiting, the error message contains the status code and the
\* body text, and report is cleared to null, whatever an earlier successful
\* run had left in it.
C3_ReportFailureShowsStatusAndClears ==
    [][ ReportFailsHttp =>
            /\ Includes(error', ToDecimal(runReport'.err[1].status))
            /\ Includes(error', runReport'.err[1].text)
            /\ report' = Null ]_vars

\* C3 witness: the second run ended by a 500 on its report request; the
\* message shows "500" and "server error" and no report is left.
C3_Witness ==
    /\ runId = 2
    /\ runPc = "idle"
    /\ runReport.st = "err"
    /\ runReport.err[1].kind = "http"
    /\ Includes(error, <<"5", "0", "0">>)
    /\ Includes(error, Str("server error"))
    /\ report = Null

\* C4: in a state where the Run button accepts a click (filter screen, not
\* loading, startup finished) and no hospital or no year is selected, no step
\* issues a request, sets loading, or changes report, topCases, step or
\* activeTab, no run starts, and error changes only to the validation message.
C4_ValidationBlocksRun ==
    [][ ( /\ step = 1
          /\ ~loading
          /\ ~hospitalsLoading
          /\ (selectedHospital = EmptyStr \/ year = Null) ) =>
            /\ sent' = {}
            /\ net' \subseteq net
            /\ ~RunIssued
            /\ loading' = FALSE
            /\ UNCHANGED <<report, topCases, step, activeTab>>
            /\ (error' # error =>
                    error' = Str("Please select a hospital and year.")) ]_vars

\* C4 witness: Run was clicked with no hospital selected although a year is.
C4_Witness ==
    /\ error = Str("Please select a hospital and year.")
    /\ selectedHospital = EmptyStr
    /\ year # Null
    /\ ~loading
    /\ net = {}
    /\ runId = 0

\* Requests of runs (not of the startup load) that are still pending.
RunRequestsPending == {r \in net : r.run > 0}

\* C5 as stated: at most one run fetch batch is in flight at any time: the
\* pending run requests all belong to one run (no second pair is issued before
\* the previous pair has settled), and no run request is pending before the
\* startup load has finished.
C5_Original ==
    /\ \A r1, r2 \in RunRequestsPending : r1.run = r2.run
    /\ (RunRequestsPending # {} => loadPc = "done")

\* C5 amended: the loading flags gate the Run button, so a run's request pair
\* is issued only when no run is waiting (loading false, the previous
\* Promise.all settled) and the startup load has finished (hospitalsLoading
\* false, no startup request pending).  Of an earlier pair at most one request
\* can still be pending then: the one whose sibling's failure ended that run;
\* its answer is ignored.  loading is true exactly while a run waits.
C5_RunGatedByLoadingFlags ==
    [][ /\ (loading <=> runPc = "awaiting")
        /\ (hospitalsLoading <=> loadPc # "done")
        /\ RunIssued =>
                /\ ~loading
                /\ ~hospitalsLoading
                /\ runPc = "idle"
                /\ loadPc = "done"
                /\ \A r \in net : r.run > 0
                /\ \A r1, r2 \in net : r1.run = r2.run => r1 = r2
                /\ Cardinality(net' \ net) = 2 ]_vars

\* C5 witness: the second run's pair is pending together with the request
\* the failed first run left behind.
C5_Witness ==
    /\ runId = 2
    /\ runPc = "awaiting"
    /\ loading
    /\ \E r \in net : r.run = 1
    /\ Cardinality({r \in net : r.run = 2}) = 2

\* C6 as stated: state updates are atomic per fetch batch for the startup load
\* too; in particular hospitals is never populated while the years request is
\* not yet issued or still pending.
C6_Original ==
    hospitals # <<>> => (loadPc = "done" /\ Request(0, "years") \notin net)

\* C6 amended: the run is an atomic batch: its two requests are issued in one
\* step, and report and topCases receive response data only in the step in
\* which both have fulfilled (a first rejection clears them at once, possibly
\* while the other request is still pending).  The startup load is sequential:
\* hospitals and selectedHospital are written when the hospitals response
\* arrives, in the step that issues the years request; years and year are
\* written by the load only when the years request has settled.
C6_RunAtomicLoadSequential ==
    [][ /\ ((\E u \in sent' : u.ep = "report") <=> (\E u \in sent' : u.ep = "cases"))
        /\ ((report' # report /\ report' # Null)
              \/ (topCases' # topCases /\ topCases' # <<>>)) =>
                /\ runReport'.st = "ok"
                /\ runCases'.st = "ok"
                /\ \A r \in net' : r.run # runId
                /\ report' = runReport'.val
                /\ topCases' = runCases'.val[1]
        /\ (hospitals' # hospitals) =>
                /\ loadPc = "hospitals"
                /\ Request(0, "hospitals") \in net
                /\ Request(0, "years") \notin net
                /\ Request(0, "years") \in net'
                /\ sent' = {Url("years", <<>>)}
                /\ UNCHANGED <<years, year>>
        /\ (years' # years) =>
                /\ loadPc = "years"
                /\ Request(0, "years") \in net
                /\ \A r \in net' : r.run > 0
                /\ UNCHANGED <<hospitals, selectedHospital>> ]_vars

\* C6 witness: hospitals populated from the backend, years request pending.
C6_Witness ==
    /\ hospitals # <<>>
    /\ selectedHospital # EmptyStr
    /\ Request(0, "years") \in net
    /\ years = <<>>
    /\ hospitalsLoading

\* C7: whenever the startup load finishes with the years request failed, years
\* is [2021, 2022, 2023], year is 2023, hospitalsError stays empty,
\* hospitalsLoading becomes false, and hospitals and the default hospital are
\* kept as the hospitals response set them.
C7_YearsFallback ==
    [][ (loadPc # "done" /\ loadPc' = "done" /\ yearsFetch' = "err") =>
            /\ years' = <<2021, 2022, 2023>>
            /\ year' = Some(2023)
            /\ hospitalsError' = EmptyStr
            /\ hospitalsError = EmptyStr
            /\ hospitalsLoading' = FALSE
            /\ hospitals' = hospitals
            /\ selectedHospital' = selectedHospital
            /\ (Len(hospitals) > 0 => selectedHospital' = hospitals[1].id) ]_vars

\* C7 witness: startup finished on the fallback with the backend's hospitals.
C7_Witness ==
    /\ loadPc = "done"
    /\ yearsFetch = "err"
    /\ years = <<2021, 2022, 2023>>
    /\ year = Some(2023)
    /\ Len(hospitals) = 2
    /\ selectedHospital = Str("H1")
    /\ hospitalsError = EmptyStr
    /\ ~hospitalsLoading
    /\ runId = 0

\* Everything but activeTab / everything but step.
allButTab == <<loadVars, filterVars, report, topCases, loading, error, step, ctlVars>>
allButStep == <<loadVars, filterVars, report, topCases, loading, error, activeTab, ctlVars>>

\* C8: the tab toggle changes only activeTab (overview <-> cases, so two
\* toggles restore the tab) and Back-to-filters changes only step (to 1);
\* both issue no request and leave report, topCases, error, loading and the
\* filter selections unchanged.  report and topCases change only in the step
\* that completes a run, so after Back-to-filters they keep their values
\* until a later run completes.
C8_NavigationKeepsData ==
    [][ /\ activeTab \in {"overview", "cases"}
        /\ (activeTab' # activeTab) =>
              \/ /\ step = 2
                 /\ activeTab' = (IF activeTab = "overview" THEN "cases" ELSE "overview")
                 /\ sent' = {}
                 /\ UNCHANGED allButTab
              \/ (step = 1 /\ step' = 2 /\ RunCompletes)
        /\ (step = 2 /\ step' # 2) =>
              /\ step' = 1
              /\ sent' = {}
              /\ UNCHANGED allButStep
        /\ (report' # report \/ topCases' # topCases) => RunCompletes ]_vars

\* C8 witness: back on the filter screen after a dashboard visit in which the
\* cases tab was opened; report and topCases are still in memory.
C8_Witness ==
    /\ step = 1
    /\ activeTab = "cases"
    /\ report # Null
    /\ topCases # <<>>
    /\ runPc = "idle"

\* C9: a run's two requests carry hospital_id = the selected hospital, year =
\* the selected year as a decimal string, and quarter = the selected quarter's
\* decimal string when one of 1..4 is selected and no quarter parameter when
\* "Full year" is; both requests carry the same three values, those selected
\* when Run was clicked.
C9_RunQuery ==
    [][ RunIssued =>
            /\ {u.ep : u \in sent'} = {"report", "cases"}
            /\ Cardinality(sent') = 2
            /\ \A u \in sent' :
                /\ \A i, j \in 1..Len(u.q) : u.q[i][1] = u.q[j][1] => i = j
                /\ HasParam(u.q, "hospital_id")
                /\ GetParam(u.q, "hospital_id") = selectedHospital
                /\ HasParam(u.q, "year")
                /\ GetParam(u.q, "year") = ToDecimal(year[1])
                /\ Number(GetParam(u.q, "year")) = year[1]
                /\ (quarter = EmptyStr => ~HasParam(u.q, "quarter"))
                /\ (quarter \in {<<"1">>, <<"2">>, <<"3">>, <<"4">>} =>
                        /\ HasParam(u.q, "quarter")
                        /\ GetParam(u.q, "quarter") = quarter)
                /\ quarter \in {EmptyStr, <<"1">>, <<"2">>, <<"3">>, <<"4">>} ]_vars

\* C9 witness: a run just issued for hospital H2, year 2022, fourth quarter.
C9_Witness ==
    /\ Cardinality(sent) = 2
    /\ \A u \in sent :
        /\ u.ep \in {"report", "cases"}
        /\ GetParam(u.q, "hospital_id") = Str("H2")
        /\ GetParam(u.q, "year") = <<"2", "0", "2", "2">>
        /\ HasParam(u.q, "quarter")
        /\ GetParam(u.q, "quarter") = <<"4">>

\* The text contains the word, letter case ignored.
ContainsCI(name, word) == Includes(ToLowerCase(name), word)

TierWord(tier) ==
    IF tier = "High" THEN <<"h", "i", "g", "h">>
    ELSE IF tier = "Medium" THEN <<"m", "e", "d", "i", "u", "m">>
    ELSE <<"l", "o", "w">>

\* The tiers an item sets when every tier word its name contains counts.
TiersNamed(item) ==
    IF item = Null THEN {}
    ELSE {t \in Tiers : ContainsCI(item[1].name, TierWord(t))}

\* The one tier an item sets when "high" goes before "medium" and "medium"
\* before "low".
TierChosen(item) ==
    IF "High" \in TiersNamed(item) THEN {"High"}
    ELSE IF "Medium" \in TiersNamed(item) THEN {"Medium"}
    ELSE TiersNamed(item)

\* The mapping in which each tier some item sets has the value of the last
\* item setting it; Sets(item) is the set of tiers an item sets.
MappingOf(items, Sets(_)) ==
    LET hit(t) == {i \in 1..Len(items) : t \in Sets(items[i])}
        last(t) == CHOOSE i \in hit(t) : \A j \in hit(t) : j <= i
    IN  [t \in {u \in Tiers : hit(u) # {}} |-> items[last(t)][1].value]

\* The pie series shows 0 for every tier the mapping lacks.
PieZeroForAbsent(m) ==
    \A i \in 1..3 :
        LET slice == pieData(m)[i]
        IN  /\ slice.name = <<"High", "Medium", "Low">>[i]
            /\ slice.value = (IF slice.name \in DOMAIN m THEN m[slice.name] ELSE 0)

HighRiskAndMedium ==
    <<Item(<<"H", "i", "g", "h", " ", "R", "i", "s", "k">>, 5),
      Item(<<"m", "e", "d", "i", "u", "m">>, 2)>>

\* C10 as stated: a mapping is passed through, an absent value becomes the
\* empty mapping, and in an array each item sets every tier whose word its
\* name contains, case-insensitively, to its value.
C10_Original ==
    rdOut # Null =>
        rdOut[1] = (IF rdIn.shape = "map" THEN rdIn.map
                    ELSE IF rdIn.shape = "absent" THEN NoTier
                    ELSE MappingOf(rdIn.items, TiersNamed))

\* C10 amended: as stated, except that an item sets one tier only: High if its
\* name contains "high", otherwise Medium if it contains "medium", otherwise
\* Low if it contains "low" (so "Medium-Low" sets Medium alone); a later item
\* of the same tier overwrites an earlier one.  Null items and items matching
\* no tier are ignored, tiers no item sets stay absent and show as 0 in the
\* pie series, and [{High Risk, 5}, {medium, 2}] gives {High: 5, Medium: 2}.
C10_RiskDistributionNormalized ==
    rdOut # Null =>
        /\ rdOut[1] = (IF rdIn.shape = "map" THEN rdIn.map
                       ELSE IF rdIn.shape = "absent" THEN NoTier
                       ELSE MappingOf(rdIn.items, TierChosen))
        /\ PieZeroForAbsent(rdOut[1])
        /\ (rdIn = RdArray(HighRiskAndMedium) =>
                /\ DOMAIN rdOut[1] = {"High", "Medium"}
                /\ rdOut[1]["High"] = 5
                /\ rdOut[1]["Medium"] = 2)

\* C10 witness: the array of the example has been normalised.
C10_Witness ==
    /\ rdIn = RdArray(HighRiskAndMedium)
    /\ rdOut # Null
    /\ DOMAIN rdOut[1] = {"High", "Medium"}
    /\ pieData(rdOut[1])[3].value = 0

\* C11: whenever the dashboard screen is active (step = 2), report is not
\* null, error is empty and no run is in flight (loading is false, handleRun
\* is not suspended); so the dashboard is never selected with nothing to
\* render, and report is null only on the filter screen.
C11_DashboardHasReport ==
    step = 2 =>
        /\ report # Null
        /\ error = EmptyStr
        /\ ~loading
        /\ runPc = "idle"

\* C11 witness: the dashboard is shown after a second, successful run while
\* the answer to a request of the failed first run is still outstanding.
C11_Witness ==
    /\ step = 2
    /\ report # Null
    /\ error = EmptyStr
    /\ ~loading
    /\ \E r \in net : r.run = 1
    /\ \A r \in net : r.run # 2

---------------------------------------------------------------------------
\* Progress: the same steps, with every issued request eventually settling.

\* A pending request of the startup load is answered or fails.
SettleLoad ==
    \/ \E body \in HospitalBodies : HospitalsResolve(body)
    \/ \E f \in Failures : HospitalsReject(f)
    \/ \E body \in YearBodies : YearsResolve(body)
    \/ \E f \in Failures : YearsReject(f)

\* A pending request of the run handleRun is suspended on is answered or fails.
SettleLive ==
    \E r \in net :
        /\ Live(r)
        /\ \/ \E body \in ReportBodies : ReportResolve(r, body)
           \/ \E f \in Failures : ReportReject(r, f)
           \/ \E body \in CasesBodies : CasesResolve(r, body)
           \/ \E f \in Failures : CasesReject(r, f)

\* The effect runs once the component has rendered, and the requests a
\* suspended handler waits for do not stay pending for ever.  (Nothing is
\* assumed of the user, nor of requests whose run has already ended.)
Fairness ==
    /\ WF_vars(Mount)
    /\ WF_vars(SettleLoad)
    /\ WF_vars(SettleLive)

LiveSpec == Init /\ [][Next]_vars /\ Fairness

\* C12: provided every issued request eventually settles, the startup load
\* eventually reaches hospitalsLoading = false and every accepted run
\* eventually reaches loading = false with the Run button enabled again
\* (neither flag set), on success and on every failure path; and nothing is
\* retried automatically: the step that ends a run issues no request, and
\* run requests are issued only by a step taken from the filter screen while
\* no run is waiting.  (The two flags are never set together, so one
\* leads-to covers the startup load and the runs.)
C12_LoadingReleasedNoRetry ==
    /\ (hospitalsLoading \/ loading) ~> (~hospitalsLoading /\ ~loading)
    /\ [][ /\ RunCompletes => (sent' = {} /\ net' \subseteq net)
           /\ (\E u \in sent' : u.ep \in {"report", "cases"}) =>
                  (RunIssued /\ runPc = "idle" /\ step = 1 /\ ~loading) ]_vars

\* C12 witness: a run has failed and the Run button is enabled again, with
\* no request of that run issued anew.
C12_Witness ==
    /\ runId = 1
    /\ runPc = "idle"
    /\ (runReport.st = "err" \/ runCases.st = "err")
    /\ error # EmptyStr
    /\ step = 1
    /\ ~loading
    /\ ~hospitalsLoading
    /\ sent = {}

====
